---- MODULE Spec2Model ----
(***************************************************************************)
(* State-machine model of the four HTTP services of the repository:        *)
(*   Assignment2 (Flask + Datastore),  Assignment3 (Flask + MySQL),        *)
(*   Assigment4 (OAuth state token),    Assignment5 (JWT-protected API).    *)
(* Every request handler is one action; the store is the state; the last   *)
(* request and its response are recorded in req / resp.                    *)
(***************************************************************************)
EXTENDS Integers, Sequences, FiniteSets, TLC

VARIABLES
  variant,            \* which service is deployed: "datastore" | "relational" | "jwt" | "oauth"
  businesses,         \* stored Business records: id -> entity / row
  reviews,            \* stored Review records:   id -> entity / row
  nextBusinessId,     \* next id the store assigns to a Business
  nextReviewId,       \* next id the store assigns to a Review
  req,                \* the last request handled (or started)
  resp,               \* the response to it
  deletedBusinesses,  \* history: ids for which DELETE /businesses/{id} returned 204
  deletedReviews,     \* history: ids for which DELETE /reviews/{id} returned 204
  stateEntities,      \* OAuth: Datastore kind "state": key -> stored state value
  nextStateKey,       \* OAuth: next Datastore key id for kind "state"
  nextToken,          \* OAuth: next value secrets.token_urlsafe produces
  session,            \* OAuth: browser session -> session['state'] (None: unset)
  callbacks,          \* OAuth: the /oauth requests: each one's position and locals
  passed,             \* OAuth history: token -> number of callbacks that passed with it
  inflight            \* requests handled storage step by storage step: position and locals

vars == <<variant, businesses, reviews, nextBusinessId, nextReviewId, req, resp,
          deletedBusinesses, deletedReviews,
          stateEntities, nextStateKey, nextToken, session, callbacks, passed, inflight>>

crudVars == <<businesses, reviews, nextBusinessId, nextReviewId,
              deletedBusinesses, deletedReviews>>

oauthVars == <<stateEntities, nextStateKey, nextToken, session, callbacks, passed>>

(***************************************************************************)
(* Bounds of the model.                                                    *)
(***************************************************************************)
MaxBusinesses == 2
MaxReviews == 2
MaxUsers == 1
MaxOwners == 1
MaxLimit == 2
MaxTokens == 2
MaxCallbacks == 2
MaxSessions == 2
MaxInflight == 3

(***************************************************************************)
(* Python / JSON values.                                                   *)
(***************************************************************************)
\* dict.update(other): other's keys win.
Merge(f, g) == [x \in (DOMAIN f) \cup (DOMAIN g) |-> IF x \in DOMAIN g THEN g[x] ELSE f[x]]

\* d[k] = v
Put(f, k, v) == [x \in (DOMAIN f) \cup {k} |-> IF x = k THEN v ELSE f[x]]

\* del d[k] / delete of a key
Remove(f, k) == [x \in (DOMAIN f) \ {k} |-> f[x]]

Restrict(f, S) == [x \in (DOMAIN f) \cap S |-> f[x]]

\* dict.get(k, default)
Get(f, k, default) == IF k \in DOMAIN f THEN f[k] ELSE default

EmptyDict == [x \in {} |-> 0]

\* Python None / JSON null / SQL NULL where the field is a text field.
None == "<null>"

\* A JSON zip_code value: a number or a string of characters.
ZipInt(n) == [t |-> "int", n |-> n, s |-> <<>>]
ZipStr(s) == [t |-> "str", n |-> 0, s |-> s]

DigitChars == <<"0", "1", "2", "3", "4", "5", "6", "7", "8", "9">>

DigitValue(c) == (CHOOSE i \in 1..Len(DigitChars) : DigitChars[i] = c) - 1

IsDigit(c) == \E i \in 1..Len(DigitChars) : DigitChars[i] = c

RECURSIVE ParseDigits(_)
ParseDigits(s) ==
  IF Len(s) = 0 THEN 0
  ELSE 10 * ParseDigits(SubSeq(s, 1, Len(s) - 1)) + DigitValue(s[Len(s)])

\* Python int(v): an int is itself, a string of decimal digits is its value,
\* anything else raises ValueError.
PyInt(v) ==
  IF v.t = "int" THEN [ok |-> TRUE, n |-> v.n]
  ELSE IF Len(v.s) > 0 /\ \A i \in 1..Len(v.s) : IsDigit(v.s[i])
       THEN [ok |-> TRUE, n |-> ParseDigits(v.s)]
       ELSE [ok |-> FALSE, n |-> 0]

RECURSIVE DecimalString(_)
\* How the driver renders an int parameter for a CHAR column.
DecimalString(n) ==
  IF n < 10 THEN <<DigitChars[n + 1]>>
  ELSE DecimalString(n \div 10) \o <<DigitChars[(n % 10) + 1]>>

RECURSIVE SortedIds(_)
\* The elements of a finite set of ids in ascending order (ORDER BY id, key order).
SortedIds(S) ==
  IF S = {} THEN <<>>
  ELSE LET m == CHOOSE x \in S : \A y \in S : x <= y
       IN  <<m>> \o SortedIds(S \ {m})

(***************************************************************************)
(* Request inputs.                                                         *)
(***************************************************************************)
Owners == 1..MaxOwners
Users == 1..MaxUsers
ZipCodes == {ZipInt(50), ZipStr(<<"0", "5">>), ZipStr(<<"x">>)}

\* Path parameters <int:...>: stored ids and one that is never assigned.
BusinessPathIds == 1..(MaxBusinesses + 1)
ReviewPathIds == 1..(MaxReviews + 1)

BusinessFieldNames == {"owner_id", "name", "street_address", "city", "state", "zip_code"}

FullBusinessBodies ==
  [owner_id : Owners, name : {"A"}, street_address : {"1 St"}, city : {"X"},
   state : {"WA"}, zip_code : ZipCodes]

SampleBusinessBody ==
  [owner_id |-> 1, name |-> "A", street_address |-> "1 St", city |-> "X",
   state |-> "WA", zip_code |-> ZipInt(50)]

\* JSON bodies of POST/PUT /businesses: complete ones, and ones lacking a field.
BusinessBodies ==
  FullBusinessBodies
    \cup {Restrict(SampleBusinessBody, BusinessFieldNames \ {f}) : f \in {"state", "zip_code"}}

FullReviewBodies ==
  [user_id : Users, business_id : BusinessPathIds, stars : {5}]
    \cup [user_id : Users, business_id : BusinessPathIds, stars : {5}, review_text : {"good"}]

SampleReviewBody == [user_id |-> 1, business_id |-> 1, stars |-> 5]

\* JSON bodies of POST /reviews: complete ones, and ones lacking one required field.
ReviewBodies ==
  FullReviewBodies
    \cup {Restrict(SampleReviewBody, {"user_id", "business_id", "stars"} \ {f}) :
            f \in {"user_id", "business_id", "stars"}}

\* JSON bodies of PUT /reviews/{id}.
ReviewUpdateBodies ==
  {[stars |-> 1], [stars |-> 1, review_text |-> "edited"], [review_text |-> "edited"]}

NoBody == EmptyDict

Request(op, id, body) == [op |-> op, id |-> id, body |-> body]

Response(status, body) == [status |-> status, body |-> body]

(***************************************************************************)
(* Assignment2: Flask + Datastore.                                         *)
(***************************************************************************)
\* validate_fields: the required fields that are not keys of the body, in order.
validate_fields(data, required_fields) ==
  SelectSeq(required_fields, LAMBDA field : field \notin DOMAIN data)

entity_not_found(entity) ==
  Response(404, [Error |-> "No " \o entity \o " with this business_id exists"])

review_not_found(entity) ==
  Response(404, [Error |-> "No " \o entity \o " with this review_id exists"])

missing_fields_response ==
  Response(400, [Error |-> "The request body is missing at least one of the required attributes"])

\* entity['id'] = entity.key.id, then jsonify(entity)
WithId(entity, id) == Put(entity, "id", id)

\* query.add_filter(field, '=', value); list(query.fetch()): the keys, in key order.
DsQuery(kind, field, value) ==
  SortedIds({k \in DOMAIN kind : field \in DOMAIN kind[k] /\ kind[k][field] = value})

\* Mutant: the duplicate lookup filters on user_id and business_id of another kind
\* and finds nothing.
DsExistingReviewNone(data) == <<>>

\* The duplicate lookup of create_review: both filters, fetch(limit=1).
DsExistingReview(data) ==
  LET found == SortedIds({k \in DOMAIN reviews :
                            /\ reviews[k]["user_id"] = data["user_id"]
                            /\ reviews[k]["business_id"] = data["business_id"]})
  IN  IF found = <<>> THEN <<>> ELSE <<found[1]>>

\* client.get(key) of kind Business: the entity, or nothing.
DsBusinessExists(business_id) == business_id \in DOMAIN businesses

\* Mutant: create_review without the check that the business exists.
DsReviewBusinessExistsUnchecked(data) == TRUE

\* create_review: client.get(client.key(BUSINESS_ENTITY, data['business_id']))
DsReviewBusinessExists(data) == data["business_id"] \in DOMAIN businesses

DsCreateBusiness ==
  /\ variant = "datastore"
  /\ \E data \in BusinessBodies :
       LET required_fields == <<"owner_id", "name", "street_address", "state", "city", "zip_code">>
           missing_fields == validate_fields(data, required_fields)
       IN  /\ req' = Request("POST /businesses", 0, data)
           /\ IF missing_fields # <<>>
              THEN /\ resp' = missing_fields_response
                   /\ UNCHANGED crudVars
              ELSE /\ nextBusinessId <= MaxBusinesses
                   /\ businesses' = Put(businesses, nextBusinessId, data)
                   /\ nextBusinessId' = nextBusinessId + 1
                   /\ resp' = Response(201, WithId(data, nextBusinessId))
                   /\ UNCHANGED <<reviews, nextReviewId, deletedBusinesses, deletedReviews>>
  /\ UNCHANGED <<variant, inflight, oauthVars>>

\* The response of GET /businesses/{id} in a given store.
DsGetBusinessResponse(business_id) ==
  IF ~DsBusinessExists(business_id)
  THEN entity_not_found("business")
  ELSE Response(200, WithId(businesses[business_id], business_id))

DsGetBusinessById ==
  /\ variant = "datastore"
  /\ \E business_id \in BusinessPathIds :
       /\ req' = Request("GET /businesses/{id}", business_id, NoBody)
       /\ resp' = DsGetBusinessResponse(business_id)
  /\ UNCHANGED <<variant, inflight, crudVars, oauthVars>>

DsGetAllBusinesses ==
  /\ variant = "datastore"
  /\ req' = Request("GET /businesses", 0, NoBody)
  /\ LET results == SortedIds(DOMAIN businesses)
     IN  resp' = Response(200, [i \in 1..Len(results) |->
                                  WithId(businesses[results[i]], results[i])])
  /\ UNCHANGED <<variant, inflight, crudVars, oauthVars>>

\* Mutant: delete_business_by_id without the cascade.
DsReviewsOfBusinessNone(business_id) == {}

\* The reviews delete_business_by_id deletes: those the query on business_id finds.
DsReviewsOfBusiness(business_id) ==
  LET found == DsQuery(reviews, "business_id", business_id)
  IN  {found[i] : i \in 1..Len(found)}

DsDeleteBusinessById ==
  /\ variant = "datastore"
  /\ \E business_id \in BusinessPathIds :
       /\ req' = Request("DELETE /businesses/{id}", business_id, NoBody)
       /\ IF ~DsBusinessExists(business_id)
          THEN /\ resp' = entity_not_found("business")
               /\ UNCHANGED crudVars
          ELSE /\ reviews' = [k \in (DOMAIN reviews) \ DsReviewsOfBusiness(business_id)
                                |-> reviews[k]]
               /\ businesses' = Remove(businesses, business_id)
               /\ deletedBusinesses' = deletedBusinesses \cup {business_id}
               /\ resp' = Response(204, NoBody)
               /\ UNCHANGED <<nextBusinessId, nextReviewId, deletedReviews>>
  /\ UNCHANGED <<variant, inflight, oauthVars>>

DsEditBusiness ==
  /\ variant = "datastore"
  /\ \E business_id \in BusinessPathIds, data \in BusinessBodies :
       LET required_fields == <<"owner_id", "name", "street_address", "city", "zip_code">>
           missing_fields == validate_fields(data, required_fields)
       IN  /\ req' = Request("PUT /businesses/{id}", business_id, data)
           /\ IF ~DsBusinessExists(business_id)
              THEN /\ resp' = entity_not_found("business")
                   /\ UNCHANGED crudVars
              ELSE IF missing_fields # <<>>
              THEN /\ resp' = entity_not_found("<missing fields>")
                   /\ UNCHANGED crudVars
              ELSE /\ businesses' = [businesses EXCEPT
                                       ![business_id] = Merge(businesses[business_id], data)]
                   /\ resp' = Response(200, WithId(Merge(businesses[business_id], data),
                                                   business_id))
                   /\ UNCHANGED <<reviews, nextBusinessId, nextReviewId,
                                  deletedBusinesses, deletedReviews>>
  /\ UNCHANGED <<variant, inflight, oauthVars>>

DsListBusinessesForOwner ==
  /\ variant = "datastore"
  /\ \E owner_id \in 1..(MaxOwners + 1) :
       LET found == DsQuery(businesses, "owner_id", owner_id)
       IN  /\ req' = Request("GET /owners/{id}/businesses", owner_id, NoBody)
           /\ resp' = Response(200, [i \in 1..Len(found) |->
                                       WithId(businesses[found[i]], found[i])])
  /\ UNCHANGED <<variant, inflight, crudVars, oauthVars>>

DsCreateReview ==
  /\ variant = "datastore"
  /\ \E data \in ReviewBodies :
       LET required_fields == <<"user_id", "business_id", "stars">>
           missing_fields == validate_fields(data, required_fields)
       IN  /\ req' = Request("POST /reviews", 0, data)
           /\ IF missing_fields # <<>>
              THEN /\ resp' = missing_fields_response
                   /\ UNCHANGED crudVars
              ELSE IF ~DsReviewBusinessExists(data)
              THEN /\ resp' = entity_not_found("business")
                   /\ UNCHANGED crudVars
              ELSE IF DsExistingReview(data) # <<>>
              THEN /\ resp' = Response(409, [Error |-> "You have already submitted a review for this business. You can update your previous review, or delete it and submit a new review"])
                   /\ UNCHANGED crudVars
              ELSE /\ nextReviewId <= MaxReviews
                   /\ reviews' = Put(reviews, nextReviewId, data)
                   /\ nextReviewId' = nextReviewId + 1
                   /\ resp' = Response(201, WithId(data, nextReviewId))
                   /\ UNCHANGED <<businesses, nextBusinessId, deletedBusinesses,
                                  deletedReviews>>
  /\ UNCHANGED <<variant, inflight, oauthVars>>

\* The response of GET /reviews/{id} in a given store.
DsGetReviewResponse(review_id) ==
  IF review_id \notin DOMAIN reviews
  THEN review_not_found("review")
  ELSE Response(200, WithId(reviews[review_id], review_id))

DsGetReviewById ==
  /\ variant = "datastore"
  /\ \E review_id \in ReviewPathIds :
       /\ req' = Request("GET /reviews/{id}", review_id, NoBody)
       /\ resp' = DsGetReviewResponse(review_id)
  /\ UNCHANGED <<variant, inflight, crudVars, oauthVars>>

\* review.update({'stars': ..., 'review_text': data.get('review_text', review.get('review_text'))})
DsUpdatedReview(review, data) ==
  Merge(review, [stars |-> data["stars"],
                 review_text |-> Get(data, "review_text", Get(review, "review_text", None))])

DsUpdateReview ==
  /\ variant = "datastore"
  /\ \E review_id \in ReviewPathIds, data \in ReviewUpdateBodies :
       LET required_fields == <<"stars">>
           missing_fields == validate_fields(data, required_fields)
       IN  /\ req' = Request("PUT /reviews/{id}", review_id, data)
           /\ IF missing_fields # <<>>
              THEN /\ resp' = missing_fields_response
                   /\ UNCHANGED crudVars
              ELSE IF review_id \notin DOMAIN reviews
              THEN /\ resp' = review_not_found("review")
                   /\ UNCHANGED crudVars
              ELSE /\ reviews' = [reviews EXCEPT
                                    ![review_id] = DsUpdatedReview(reviews[review_id], data)]
                   /\ resp' = Response(200, WithId(DsUpdatedReview(reviews[review_id], data),
                                                   review_id))
                   /\ UNCHANGED <<businesses, nextBusinessId, nextReviewId,
                                  deletedBusinesses, deletedReviews>>
  /\ UNCHANGED <<variant, inflight, oauthVars>>

DsDeleteReview ==
  /\ variant = "datastore"
  /\ \E review_id \in ReviewPathIds :
       /\ req' = Request("DELETE /reviews/{id}", review_id, NoBody)
       /\ IF review_id \notin DOMAIN reviews
          THEN /\ resp' = review_not_found("review")
               /\ UNCHANGED crudVars
          ELSE /\ reviews' = Remove(reviews, review_id)
               /\ deletedReviews' = deletedReviews \cup {review_id}
               /\ resp' = Response(204, NoBody)
               /\ UNCHANGED <<businesses, nextBusinessId, nextReviewId, deletedBusinesses>>
  /\ UNCHANGED <<variant, inflight, oauthVars>>

\* The body of GET /users/{user_id}/reviews in a given store.
DsListReviewsForUserResponse(user_id) ==
  LET found == DsQuery(reviews, "user_id", user_id)
  IN  Response(200, [i \in 1..Len(found) |-> WithId(reviews[found[i]], found[i])])

DsListReviewsForUser ==
  /\ variant = "datastore"
  /\ \E user_id \in 1..(MaxUsers + 1) :
       /\ req' = Request("GET /users/{id}/reviews", user_id, NoBody)
       /\ resp' = DsListReviewsForUserResponse(user_id)
  /\ UNCHANGED <<variant, inflight, crudVars, oauthVars>>

DsNext ==
  \/ DsCreateBusiness \/ DsGetBusinessById \/ DsGetAllBusinesses
  \/ DsDeleteBusinessById \/ DsEditBusiness \/ DsListBusinessesForOwner
  \/ DsCreateReview \/ DsGetReviewById \/ DsUpdateReview \/ DsDeleteReview
  \/ DsListReviewsForUser


(***************************************************************************)
(* Assignment3: Flask + MySQL.                                             *)
(***************************************************************************)
\* f"{base}/{kind}/{id}"
Link(kind, id) == <<kind, id>>

SqlMissingFields(content, required_fields) ==
  SelectSeq(required_fields, LAMBDA field : field \notin DOMAIN content)

SqlMissingResponse ==
  Response(400, [Error |-> "The request body is missing at least one of the required attributes"])

SqlBusinessNotFound ==
  Response(404, [Error |-> "No business with this business_id exists"])

SqlReviewNotFound ==
  Response(404, [Error |-> "No review with this review_id exists"])

\* The row INSERT/UPDATE writes to table businesses; zip_code is a CHAR(5) column
\* that receives the int parameter.
SqlBusinessRow(content, zip) ==
  [owner_id |-> content["owner_id"], name |-> content["name"],
   street_address |-> content["street_address"], city |-> content["city"],
   state |-> content["state"], zip_code |-> DecimalString(zip)]

\* The JSON object the business handlers build from the request body.
SqlBusinessEcho(id, content, zip, self) ==
  [id |-> id, owner_id |-> content["owner_id"], name |-> content["name"],
   street_address |-> content["street_address"], city |-> content["city"],
   state |-> content["state"], zip_code |-> ZipInt(zip), self |-> self]

\* The JSON object built from a row of table businesses.
SqlBusinessJson(id, row, self) ==
  [id |-> id, owner_id |-> row.owner_id, name |-> row.name,
   street_address |-> row.street_address, city |-> row.city, state |-> row.state,
   zip_code |-> ZipInt(PyInt(ZipStr(row.zip_code)).n), self |-> self]

SqlCreateBusinesses ==
  /\ variant = "relational"
  /\ \E content \in BusinessBodies :
       LET required_fields == <<"owner_id", "name", "street_address", "city", "state", "zip_code">>
           missing_fields == SqlMissingFields(content, required_fields)
       IN  /\ req' = Request("POST /businesses", 0, content)
           /\ IF missing_fields # <<>>
              THEN /\ resp' = SqlMissingResponse
                   /\ UNCHANGED crudVars
              ELSE IF ~PyInt(content["zip_code"]).ok
              THEN /\ resp' = Response(500, [Error |-> "Unable to create business"])
                   /\ UNCHANGED crudVars
              ELSE /\ nextBusinessId <= MaxBusinesses
                   /\ businesses' = Put(businesses, nextBusinessId,
                                        SqlBusinessRow(content, PyInt(content["zip_code"]).n))
                   /\ nextBusinessId' = nextBusinessId + 1
                   /\ resp' = Response(201,
                                SqlBusinessEcho(nextBusinessId, content,
                                                PyInt(content["zip_code"]).n,
                                                Link("businesses", nextBusinessId)))
                   /\ UNCHANGED <<reviews, nextReviewId, deletedBusinesses, deletedReviews>>
  /\ UNCHANGED <<variant, inflight, oauthVars>>

\* The response of GET /businesses/{id} in a given store.
SqlGetBusinessResponse(business_id) ==
  IF business_id \in DOMAIN businesses
  THEN Response(200, SqlBusinessJson(business_id, businesses[business_id],
                                     Link("businesses", business_id)))
  ELSE SqlBusinessNotFound

SqlGetBusiness ==
  /\ variant = "relational"
  /\ \E business_id \in BusinessPathIds :
       /\ req' = Request("GET /businesses/{id}", business_id, NoBody)
       /\ resp' = SqlGetBusinessResponse(business_id)
  /\ UNCHANGED <<variant, inflight, crudVars, oauthVars>>

\* SELECT ... ORDER BY id LIMIT :limit OFFSET :offset
SqlPage(ids, limit, offset) ==
  SubSeq(ids, offset + 1, IF offset + limit < Len(ids) THEN offset + limit ELSE Len(ids))

\* Mutant: next_url built whenever the page is not empty.
SqlNextUrlNonEmpty(count, limit, offset) ==
  IF count > 0
  THEN [null |-> FALSE, offset |-> offset + limit, limit |-> limit]
  ELSE [null |-> TRUE, offset |-> 0, limit |-> 0]

\* next_url: f"{base_url}?offset={offset + limit}&limit={limit}", or None.
SqlNextUrl(count, limit, offset) ==
  IF count = limit
  THEN [null |-> FALSE, offset |-> offset + limit, limit |-> limit]
  ELSE [null |-> TRUE, offset |-> 0, limit |-> 0]

\* The response of GET /businesses?offset=..&limit=.. in a given store.
SqlListBusinessesResponse(limit, offset) ==
  IF limit < 0 \/ offset < 0
  THEN Response(500, [Error |-> "SQL syntax error"])
  ELSE LET page == SqlPage(SortedIds(DOMAIN businesses), limit, offset)
       IN  Response(200,
             [entries |-> [i \in 1..Len(page) |->
                             SqlBusinessJson(page[i], businesses[page[i]],
                                             Link("businesses", page[i]))],
              next |-> SqlNextUrl(Len(page), limit, offset)])

SqlListBusinesses ==
  /\ variant = "relational"
  /\ \E limit \in (-1)..MaxLimit, offset \in (-1)..(MaxBusinesses + 1) :
       /\ req' = Request("GET /businesses", 0, [limit |-> limit, offset |-> offset])
       /\ resp' = SqlListBusinessesResponse(limit, offset)
  /\ UNCHANGED <<variant, inflight, crudVars, oauthVars>>

SqlEditBusiness ==
  /\ variant = "relational"
  /\ \E business_id \in BusinessPathIds, content \in BusinessBodies :
       LET required_fields == <<"owner_id", "name", "street_address", "city", "state", "zip_code">>
           missing_fields == SqlMissingFields(content, required_fields)
       IN  /\ req' = Request("PUT /businesses/{id}", business_id, content)
           /\ IF missing_fields # <<>>
              THEN /\ resp' = SqlMissingResponse
                   /\ UNCHANGED crudVars
              ELSE IF business_id \notin DOMAIN businesses
              THEN /\ resp' = SqlBusinessNotFound
                   /\ UNCHANGED crudVars
              ELSE IF ~PyInt(content["zip_code"]).ok
              THEN /\ resp' = Response(500, [Error |-> "invalid literal for int()"])
                   /\ UNCHANGED crudVars
              ELSE /\ businesses' = [businesses EXCEPT ![business_id] =
                                       SqlBusinessRow(content, PyInt(content["zip_code"]).n)]
                   /\ resp' = Response(200,
                                SqlBusinessEcho(business_id, content,
                                                PyInt(content["zip_code"]).n,
                                                Link("businesses", business_id)))
                   /\ UNCHANGED <<reviews, nextBusinessId, nextReviewId,
                                  deletedBusinesses, deletedReviews>>
  /\ UNCHANGED <<variant, inflight, oauthVars>>

\* DELETE FROM review WHERE business_id = :business_id
SqlReviewsAfterCascade(business_id) ==
  [k \in {r \in DOMAIN reviews : reviews[r].business_id # business_id} |-> reviews[k]]

\* Mutant: the DELETE of the business row is never committed.
SqlBusinessesAfterDeleteUncommitted(business_id) == businesses

\* DELETE FROM businesses WHERE id = :business_id; conn.commit()
SqlBusinessesAfterDelete(business_id) == Remove(businesses, business_id)

SqlDeleteBusiness ==
  /\ variant = "relational"
  /\ \E business_id \in BusinessPathIds :
       /\ req' = Request("DELETE /businesses/{id}", business_id, NoBody)
       /\ IF business_id \notin DOMAIN businesses
          THEN /\ resp' = SqlBusinessNotFound
               /\ UNCHANGED crudVars
          ELSE /\ reviews' = SqlReviewsAfterCascade(business_id)
               /\ businesses' = SqlBusinessesAfterDelete(business_id)
               /\ deletedBusinesses' = deletedBusinesses \cup {business_id}
               /\ resp' = Response(204, NoBody)
               /\ UNCHANGED <<nextBusinessId, nextReviewId, deletedReviews>>
  /\ UNCHANGED <<variant, inflight, oauthVars>>

SqlListBusinessesForOwner ==
  /\ variant = "relational"
  /\ \E owner_id \in 1..(MaxOwners + 1) :
       LET found == SortedIds({b \in DOMAIN businesses : businesses[b].owner_id = owner_id})
       IN  /\ req' = Request("GET /owners/{id}/businesses", owner_id, NoBody)
           /\ resp' = IF found = <<>>
                      THEN Response(404, [Error |-> "No businesses found for this owner"])
                      ELSE Response(200, [i \in 1..Len(found) |->
                                            SqlBusinessJson(found[i], businesses[found[i]],
                                                            Link("businesses", found[i]))])
  /\ UNCHANGED <<variant, inflight, crudVars, oauthVars>>

\* Mutant: the duplicate SELECT compares user_id only with itself being absent.
SqlReviewExistsNever(content) == FALSE

\* SELECT id FROM review WHERE user_id = :user_id AND business_id = :business_id
SqlReviewExists(content) ==
  \E r \in DOMAIN reviews :
    /\ reviews[r].user_id = content["user_id"]
    /\ reviews[r].business_id = content["business_id"]

\* SELECT id FROM businesses WHERE id = :business_id
SqlBusinessExists(business_id) == business_id \in DOMAIN businesses

\* The row INSERT writes to table review.
SqlReviewRow(content) ==
  [user_id |-> content["user_id"], business_id |-> content["business_id"],
   stars |-> content["stars"], review_text |-> Get(content, "review_text", "")]

\* The JSON object built from a row of table review.
SqlReviewJson(id, row, self) ==
  [id |-> id, user_id |-> row.user_id, stars |-> row.stars, review_text |-> row.review_text,
   self |-> self, business |-> Link("businesses", row.business_id)]

SqlCreateReview ==
  /\ variant = "relational"
  /\ \E content \in ReviewBodies :
       LET required_fields == <<"user_id", "business_id", "stars">>
           missing_fields == SqlMissingFields(content, required_fields)
       IN  /\ req' = Request("POST /reviews", 0, content)
           /\ IF missing_fields # <<>>
              THEN /\ resp' = SqlMissingResponse
                   /\ UNCHANGED crudVars
              ELSE IF ~SqlBusinessExists(content["business_id"])
              THEN /\ resp' = SqlBusinessNotFound
                   /\ UNCHANGED crudVars
              ELSE IF SqlReviewExists(content)
              THEN /\ resp' = Response(409, [Error |-> "You have already submitted a review for this business. You can update your previous review, or delete it and submit a new review"])
                   /\ UNCHANGED crudVars
              ELSE /\ nextReviewId <= MaxReviews
                   /\ reviews' = Put(reviews, nextReviewId, SqlReviewRow(content))
                   /\ nextReviewId' = nextReviewId + 1
                   /\ resp' = Response(201,
                                [id |-> nextReviewId, user_id |-> content["user_id"],
                                 stars |-> content["stars"],
                                 review_text |-> Get(content, "review_text", ""),
                                 self |-> Link("reviews", nextReviewId),
                                 business |-> Link("businesses", content["business_id"])])
                   /\ UNCHANGED <<businesses, nextBusinessId, deletedBusinesses,
                                  deletedReviews>>
  /\ UNCHANGED <<variant, inflight, oauthVars>>

\* The response of GET /reviews/{id} in a given store.
SqlGetReviewResponse(review_id) ==
  IF review_id \notin DOMAIN reviews
  THEN SqlReviewNotFound
  ELSE Response(200, SqlReviewJson(review_id, reviews[review_id], Link("reviews", review_id)))

SqlGetReview ==
  /\ variant = "relational"
  /\ \E review_id \in ReviewPathIds :
       /\ req' = Request("GET /reviews/{id}", review_id, NoBody)
       /\ resp' = SqlGetReviewResponse(review_id)
  /\ UNCHANGED <<variant, inflight, crudVars, oauthVars>>

\* Mutant: the UPDATE always sets review_text, to '' when the body has none.
SqlUpdatedReviewRowAll(row, content) ==
  [row EXCEPT !.stars = content["stars"],
              !.review_text = Get(content, "review_text", "")]

\* UPDATE review SET stars = :stars [, review_text = :review_text] WHERE id = :review_id
SqlUpdatedReviewRow(row, content) ==
  [row EXCEPT !.stars = content["stars"],
              !.review_text = IF "review_text" \in DOMAIN content
                              THEN content["review_text"] ELSE @]

SqlUpdateReview ==
  /\ variant = "relational"
  /\ \E review_id \in ReviewPathIds, content \in ReviewUpdateBodies :
       /\ req' = Request("PUT /reviews/{id}", review_id, content)
       /\ IF "stars" \notin DOMAIN content
          THEN /\ resp' = SqlMissingResponse
               /\ UNCHANGED crudVars
          ELSE IF review_id \notin DOMAIN reviews
          THEN /\ resp' = SqlReviewNotFound
               /\ UNCHANGED crudVars
          ELSE /\ reviews' = [reviews EXCEPT ![review_id] =
                                SqlUpdatedReviewRow(reviews[review_id], content)]
               /\ resp' = Response(200,
                            SqlReviewJson(review_id,
                                          SqlUpdatedReviewRow(reviews[review_id], content),
                                          Link("reviews", review_id)))
               /\ UNCHANGED <<businesses, nextBusinessId, nextReviewId,
                              deletedBusinesses, deletedReviews>>
  /\ UNCHANGED <<variant, inflight, oauthVars>>

SqlDeleteReview ==
  /\ variant = "relational"
  /\ \E review_id \in ReviewPathIds :
       /\ req' = Request("DELETE /reviews/{id}", review_id, NoBody)
       /\ IF review_id \notin DOMAIN reviews
          THEN /\ resp' = SqlReviewNotFound
               /\ UNCHANGED crudVars
          ELSE /\ reviews' = Remove(reviews, review_id)
               /\ deletedReviews' = deletedReviews \cup {review_id}
               /\ resp' = Response(204, NoBody)
               /\ UNCHANGED <<businesses, nextBusinessId, nextReviewId, deletedBusinesses>>
  /\ UNCHANGED <<variant, inflight, oauthVars>>

\* The response of GET /users/{user_id}/reviews in a given store.
SqlGetReviewsForUserResponse(user_id) ==
  LET found == SortedIds({r \in DOMAIN reviews : reviews[r].user_id = user_id})
  IN  IF found = <<>>
      THEN Response(404, <<>>)
      ELSE Response(200, [i \in 1..Len(found) |->
                            SqlReviewJson(found[i], reviews[found[i]],
                                          Link("reviews", found[i]))])

SqlGetReviewsForUser ==
  /\ variant = "relational"
  /\ \E user_id \in 1..(MaxUsers + 1) :
       /\ req' = Request("GET /users/{id}/reviews", user_id, NoBody)
       /\ resp' = SqlGetReviewsForUserResponse(user_id)
  /\ UNCHANGED <<variant, inflight, crudVars, oauthVars>>

SqlNext ==
  \/ SqlCreateBusinesses \/ SqlGetBusiness \/ SqlListBusinesses \/ SqlEditBusiness
  \/ SqlDeleteBusiness \/ SqlListBusinessesForOwner
  \/ SqlCreateReview \/ SqlGetReview \/ SqlUpdateReview \/ SqlDeleteReview
  \/ SqlGetReviewsForUser

(***************************************************************************)
(* The two CRUD services: the variant is fixed at deployment.              *)
(***************************************************************************)
OAuthIdle ==
  /\ stateEntities = EmptyDict
  /\ nextStateKey = 1
  /\ nextToken = 1
  /\ session = [b \in 1..MaxSessions |-> None]
  /\ callbacks = <<>>
  /\ passed = EmptyDict

CrudEmpty ==
  /\ businesses = EmptyDict
  /\ reviews = EmptyDict
  /\ nextBusinessId = 1
  /\ nextReviewId = 1
  /\ deletedBusinesses = {}
  /\ deletedReviews = {}
  /\ req = Request("none", 0, NoBody)
  /\ resp = Response(0, NoBody)
  /\ inflight = <<>>

Init ==
  /\ variant \in {"datastore", "relational"}
  /\ CrudEmpty
  /\ OAuthIdle

Next == DsNext \/ SqlNext

Spec == Init /\ [][Next]_vars


(***************************************************************************)
(* Assignment5: Flask + Datastore, businesses protected by a JWT.          *)
(***************************************************************************)
Subjects == {"auth0|alice", "auth0|bob"}

\* What a request carries as credential: whether it has an Authorization header,
\* how many words the header has, whether the second word parses as a JWT, the
\* alg and kid of its unverified header, and how jwt.decode ends on it.
Credential(header, words, parsable, alg, kid, decode, sub) ==
  [header |-> header, words |-> words, parsable |-> parsable, alg |-> alg,
   kid |-> kid, decode |-> decode, sub |-> sub]

ValidCredential(sub) == Credential(TRUE, 2, TRUE, "RS256", "known", "ok", sub)

NoCredential == Credential(FALSE, 0, FALSE, None, None, "error", None)

Credentials ==
  {ValidCredential(sub) : sub \in Subjects}
    \cup {NoCredential,
          Credential(TRUE, 1, FALSE, None, None, "error", None),
          Credential(TRUE, 2, FALSE, None, None, "error", None),
          Credential(TRUE, 2, TRUE, None, "known", "ok", "auth0|alice"),
          Credential(TRUE, 2, TRUE, "RS256", None, "ok", "auth0|alice"),
          Credential(TRUE, 2, TRUE, "HS256", "known", "ok", "auth0|alice"),
          Credential(TRUE, 2, TRUE, "RS256", "unknown", "ok", "auth0|alice"),
          Credential(TRUE, 2, TRUE, "RS256", "known", "expired", "auth0|alice"),
          Credential(TRUE, 2, TRUE, "RS256", "known", "claims", "auth0|alice"),
          Credential(TRUE, 2, TRUE, "RS256", "known", "error", "auth0|alice")}

\* verify_jwt: the payload, None, or an exception that leaves the function.
JwtPayload(sub) == [result |-> "payload", sub |-> sub]
JwtNone == [result |-> "none", sub |-> None]
JwtRaise == [result |-> "raise", sub |-> None]

\* Mutant: the token's claims are read without verifying the token.
verify_jwt_unverified(cred) ==
  IF cred.sub # None THEN JwtPayload(cred.sub) ELSE JwtNone

verify_jwt(cred) ==
  IF ~cred.header THEN JwtNone
  ELSE IF cred.words < 2 THEN JwtRaise                 \* auth_header[1]: IndexError
  ELSE IF ~cred.parsable THEN JwtNone                   \* jwt.JWTError
  ELSE IF cred.alg = None THEN JwtRaise                 \* unverified_header["alg"]: KeyError
  ELSE IF cred.alg = "HS256" THEN JwtNone
  ELSE IF cred.kid = None THEN JwtRaise                 \* unverified_header["kid"]: KeyError
  ELSE IF cred.kid # "known" THEN JwtNone               \* rsa_key stays {}
  ELSE IF cred.decode # "ok" THEN JwtNone               \* the three except clauses
  ELSE JwtPayload(cred.sub)

JwtRequest(op, id, body, auth) == [op |-> op, id |-> id, body |-> body, auth |-> auth]

JwtUnauthorized == Response(401, [Error |-> "Invalid JWT / Unauthorized access."])

\* The 500 Flask answers when a view raises.
InternalServerError == Response(500, [Error |-> "Internal Server Error"])

JwtForbidden == Response(403, [Error |-> "No business with this business_id exists"])

JwtRequiredFields ==
  <<"name", "street_address", "city", "state", "zip_code", "inspection_score">>

check_attributes(content) ==
  \A i \in 1..Len(JwtRequiredFields) :
    /\ JwtRequiredFields[i] \in DOMAIN content
    /\ (JwtRequiredFields[i] = "name" => content["name"] # None)

JwtSampleBody ==
  [name |-> "A", street_address |-> "1 St", city |-> "X", state |-> "WA",
   zip_code |-> 98101, inspection_score |-> 90]

\* JSON bodies of POST /businesses: complete, complete with an owner_id or id key of
\* its own, lacking a field, or with a null field.
JwtBodies ==
  {JwtSampleBody, Put(JwtSampleBody, "id", 7), Put(JwtSampleBody, "name", None),
   Restrict(JwtSampleBody, (DOMAIN JwtSampleBody) \ {"inspection_score"})}
    \cup {Put(JwtSampleBody, "owner_id", sub) : sub \in Subjects}

\* new_business.update({"owner_id": payload.get("sub"), **content})
JwtNewBusiness(sub, content) == Merge([owner_id |-> sub], content)

JwtBusinessesPost ==
  /\ variant = "jwt"
  /\ \E content \in JwtBodies, auth \in Credentials :
       LET payload == verify_jwt(auth)
       IN  /\ req' = JwtRequest("POST /businesses", 0, content, auth)
           /\ IF ~check_attributes(content)
              THEN /\ resp' = SqlMissingResponse
                   /\ UNCHANGED crudVars
              ELSE IF payload.result = "raise"
              THEN /\ resp' = InternalServerError
                   /\ UNCHANGED crudVars
              ELSE IF payload.result = "none"
              THEN /\ resp' = JwtUnauthorized
                   /\ UNCHANGED crudVars
              ELSE /\ nextBusinessId <= MaxBusinesses
                   /\ businesses' = Put(businesses, nextBusinessId,
                                        JwtNewBusiness(payload.sub, content))
                   /\ nextBusinessId' = nextBusinessId + 1
                   /\ resp' = Response(201,
                                Put(Merge([id |-> nextBusinessId, owner_id |-> payload.sub],
                                          content),
                                    "self", Link("businesses", nextBusinessId)))
                   /\ UNCHANGED <<reviews, nextReviewId, deletedBusinesses, deletedReviews>>
  /\ UNCHANGED <<variant, inflight, oauthVars>>

\* Mutant: get_business and delete_business without the owner comparison.
JwtHiddenAbsentOnly(payload, id) == id \notin DOMAIN businesses

\* not business or payload['sub'] != business['owner_id']
JwtHidden(payload, id) ==
  \/ id \notin DOMAIN businesses
  \/ payload.sub # businesses[id]["owner_id"]

\* The response of GET /businesses/{id} to a credential in a given store.
JwtGetBusinessResponse(id, auth) ==
  LET payload == verify_jwt(auth)
  IN  IF payload.result = "raise" THEN InternalServerError
      ELSE IF payload.result = "none" THEN JwtUnauthorized
      ELSE IF JwtHidden(payload, id) THEN JwtForbidden
      ELSE Response(200, Put(WithId(businesses[id], id), "self", Link("businesses", id)))

JwtGetBusiness ==
  /\ variant = "jwt"
  /\ \E id \in BusinessPathIds, auth \in Credentials :
       /\ req' = JwtRequest("GET /businesses/{id}", id, NoBody, auth)
       /\ resp' = JwtGetBusinessResponse(id, auth)
  /\ UNCHANGED <<variant, inflight, crudVars, oauthVars>>

JwtBusinessesList ==
  /\ variant = "jwt"
  /\ \E auth \in Credentials :
       LET payload == verify_jwt(auth)
           sub == IF payload.result = "payload" THEN payload.sub ELSE None
           results == SortedIds({k \in DOMAIN businesses :
                                   sub # None => businesses[k]["owner_id"] = sub})
       IN  /\ req' = JwtRequest("GET /businesses", 0, NoBody, auth)
           /\ resp' = IF payload.result = "raise"
                      THEN InternalServerError
                      ELSE Response(200,
                             [i \in 1..Len(results) |->
                                [id |-> results[i],
                                 owner_id |-> businesses[results[i]]["owner_id"],
                                 name |-> businesses[results[i]]["name"],
                                 street_address |-> businesses[results[i]]["street_address"],
                                 city |-> businesses[results[i]]["city"],
                                 state |-> businesses[results[i]]["state"],
                                 zip_code |-> businesses[results[i]]["zip_code"],
                                 inspection_score |->
                                   IF sub # None
                                   THEN businesses[results[i]]["inspection_score"] ELSE 0,
                                 inspection_score_null |-> sub = None,
                                 self |-> Link("businesses", results[i])]])
  /\ UNCHANGED <<variant, inflight, crudVars, oauthVars>>

JwtDeleteBusiness ==
  /\ variant = "jwt"
  /\ \E id \in BusinessPathIds, auth \in Credentials :
       LET payload == verify_jwt(auth)
       IN  /\ req' = JwtRequest("DELETE /businesses/{id}", id, NoBody, auth)
           /\ IF payload.result = "raise"
              THEN /\ resp' = InternalServerError
                   /\ UNCHANGED crudVars
              ELSE IF payload.result = "none"
              THEN /\ resp' = JwtUnauthorized
                   /\ UNCHANGED crudVars
              ELSE IF JwtHidden(payload, id)
              THEN /\ resp' = JwtForbidden
                   /\ UNCHANGED crudVars
              ELSE /\ businesses' = Remove(businesses, id)
                   /\ deletedBusinesses' = deletedBusinesses \cup {id}
                   /\ resp' = Response(204, NoBody)
                   /\ UNCHANGED <<reviews, nextBusinessId, nextReviewId, deletedReviews>>
  /\ UNCHANGED <<variant, inflight, oauthVars>>

JwtInit ==
  /\ variant = "jwt"
  /\ CrudEmpty
  /\ OAuthIdle

JwtNext == JwtBusinessesPost \/ JwtGetBusiness \/ JwtBusinessesList \/ JwtDeleteBusiness

SpecJWT == JwtInit /\ [][JwtNext]_vars


(***************************************************************************)
(* Assigment4: the OAuth anti-forgery state token.                         *)
(* verify_state is two storage calls, a query and a delete; /oauth         *)
(* requests run concurrently, so other requests' steps may come between.   *)
(***************************************************************************)
\* secrets.token_urlsafe(16): a new value at each call.
TokenValue(n) == "token" \o ToString(n)

IssuedTokens == {TokenValue(n) : n \in 1..(nextToken - 1)}

\* request.args.get('state'): absent, empty, an issued value, or a made-up one.
StateParams == {None, "", "forged"} \cup {TokenValue(n) : n \in 1..MaxTokens}

\* store_state(state)
store_state(entities, key, state) == Put(entities, key, [state |-> state])

\* Mutant: the query of verify_state without its filter on the state value.
StateQueryUnfiltered(state) == SortedIds(DOMAIN stateEntities)

\* The query of verify_state: the matching entities' keys, in key order.
StateQuery(state) ==
  SortedIds({k \in DOMAIN stateEntities : stateEntities[k].state = state})

\* The state values currently stored.
StoredStates == {stateEntities[k].state : k \in DOMAIN stateEntities}

welcome ==
  /\ variant = "oauth"
  /\ nextToken <= MaxTokens
  /\ \E b \in 1..MaxSessions :
       LET state == TokenValue(nextToken)
       IN  /\ session' = [session EXCEPT ![b] = state]
           /\ stateEntities' = store_state(stateEntities, nextStateKey, state)
           /\ nextStateKey' = nextStateKey + 1
           /\ nextToken' = nextToken + 1
           /\ passed' = Put(passed, state, 0)
  /\ UNCHANGED <<variant, inflight, crudVars, req, resp, callbacks>>

Callback(b, state, pc, key, status, exchanged) ==
  [session |-> b, state |-> state, pc |-> pc, key |-> key, status |-> status,
   exchanged |-> exchanged]

\* oauth_callback up to and including the query of verify_state.
oauth_callback_query ==
  /\ variant = "oauth"
  /\ Len(callbacks) < MaxCallbacks
  /\ \E b \in 1..MaxSessions, state \in StateParams :
       LET results == StateQuery(state)
       IN  callbacks' = Append(callbacks,
             IF state = None \/ state = ""
             THEN Callback(b, state, "done", 0, 400, FALSE)
             ELSE IF results = <<>>
             THEN Callback(b, state, "done", 0, 400, FALSE)
             ELSE Callback(b, state, "delete", results[1], 0, FALSE))
  /\ UNCHANGED <<variant, inflight, crudVars, req, resp, stateEntities, nextStateKey, nextToken,
                 session, passed>>

\* The rest of verify_state (delete results[0].key, return True) and of
\* oauth_callback: the token exchange, whose outcome the provider decides.
oauth_callback_delete ==
  /\ variant = "oauth"
  /\ \E c \in 1..Len(callbacks), access_token \in BOOLEAN :
       /\ callbacks[c].pc = "delete"
       /\ stateEntities' = Remove(stateEntities, callbacks[c].key)
       /\ passed' = [passed EXCEPT ![callbacks[c].state] = @ + 1]
       /\ callbacks' = [callbacks EXCEPT ![c] =
                          Callback(@.session, @.state, "done", @.key,
                                   IF access_token THEN 200 ELSE 400, TRUE)]
  /\ UNCHANGED <<variant, inflight, crudVars, req, resp, nextStateKey, nextToken, session>>

OAuthInit ==
  /\ variant = "oauth"
  /\ CrudEmpty
  /\ stateEntities = EmptyDict
  /\ nextStateKey = 1
  /\ nextToken = 1
  /\ session = [b \in 1..MaxSessions |-> None]
  /\ callbacks = <<>>
  /\ passed = EmptyDict

OAuthNext == welcome \/ oauth_callback_query \/ oauth_callback_delete

SpecOAuth == OAuthInit /\ [][OAuthNext]_vars


(***************************************************************************)
(* The CRUD services under concurrent requests: POST /reviews and the      *)
(* datastore DELETE /businesses/{id} taken one storage call at a time.     *)
(* Each storage call reads or writes the committed store.                  *)
(***************************************************************************)
\* A request in progress: its route, path id, body, position, the keys its query
\* returned, its status once answered, and the requests that were in progress
\* when it started.
Pending(op, id, body, pc, found, status, during) ==
  [op |-> op, id |-> id, body |-> body, pc |-> pc, found |-> found, status |-> status,
   during |-> during]

InProgress == {i \in 1..Len(inflight) : inflight[i].pc # "done"}

\* The request moves to another position, or is answered.
Goto(i, pc, found, status) ==
  inflight' = [inflight EXCEPT ![i] =
                 Pending(@.op, @.id, @.body, pc, found, status, @.during)]

\* create_review (Assignment2): validation, then client.get of the business.
DsCreateReviewGetBusiness ==
  /\ variant = "datastore"
  /\ Len(inflight) < MaxInflight
  /\ \E data \in FullReviewBodies :
       inflight' = Append(inflight,
         IF ~DsReviewBusinessExists(data)
         THEN Pending("POST /reviews", 0, data, "done", <<>>, 404, InProgress)
         ELSE Pending("POST /reviews", 0, data, "query", <<>>, 0, InProgress))
  /\ UNCHANGED <<variant, crudVars, req, resp, oauthVars>>

\* create_review (Assignment2): the duplicate query.
DsCreateReviewQuery ==
  /\ variant = "datastore"
  /\ \E i \in 1..Len(inflight) :
       /\ inflight[i].op = "POST /reviews"
       /\ inflight[i].pc = "query"
       /\ IF DsExistingReview(inflight[i].body) # <<>>
          THEN Goto(i, "done", <<>>, 409)
          ELSE Goto(i, "put", <<>>, 0)
  /\ UNCHANGED <<variant, crudVars, req, resp, oauthVars>>

\* create_review (Assignment2): client.put(review) and the 201 response.
DsCreateReviewPut ==
  /\ variant = "datastore"
  /\ nextReviewId <= MaxReviews
  /\ \E i \in 1..Len(inflight) :
       /\ inflight[i].op = "POST /reviews"
       /\ inflight[i].pc = "put"
       /\ reviews' = Put(reviews, nextReviewId, inflight[i].body)
       /\ nextReviewId' = nextReviewId + 1
       /\ Goto(i, "done", <<>>, 201)
  /\ UNCHANGED <<variant, businesses, nextBusinessId, deletedBusinesses, deletedReviews,
                 req, resp, oauthVars>>

\* delete_business_by_id: client.get of the business.
DsDeleteBusinessGet ==
  /\ variant = "datastore"
  /\ Len(inflight) < MaxInflight
  /\ \E business_id \in BusinessPathIds :
       inflight' = Append(inflight,
         IF ~DsBusinessExists(business_id)
         THEN Pending("DELETE /businesses/{id}", business_id, NoBody, "done", <<>>, 404,
                      InProgress)
         ELSE Pending("DELETE /businesses/{id}", business_id, NoBody, "query", <<>>, 0,
                      InProgress))
  /\ UNCHANGED <<variant, crudVars, req, resp, oauthVars>>

\* delete_business_by_id: the query for the reviews of the business.
DsDeleteBusinessQuery ==
  /\ variant = "datastore"
  /\ \E i \in 1..Len(inflight) :
       /\ inflight[i].op = "DELETE /businesses/{id}"
       /\ inflight[i].pc = "query"
       /\ Goto(i, "delete", DsQuery(reviews, "business_id", inflight[i].id), 0)
  /\ UNCHANGED <<variant, crudVars, req, resp, oauthVars>>

\* delete_business_by_id: one iteration of the loop, client.delete(review.key).
DsDeleteBusinessDeleteReview ==
  /\ variant = "datastore"
  /\ \E i \in 1..Len(inflight) :
       /\ inflight[i].op = "DELETE /businesses/{id}"
       /\ inflight[i].pc = "delete"
       /\ inflight[i].found # <<>>
       /\ reviews' = [k \in (DOMAIN reviews) \ {Head(inflight[i].found)} |-> reviews[k]]
       /\ Goto(i, "delete", Tail(inflight[i].found), 0)
  /\ UNCHANGED <<variant, businesses, nextBusinessId, nextReviewId, deletedBusinesses,
                 deletedReviews, req, resp, oauthVars>>

\* delete_business_by_id: client.delete(key) and the 204 response.
DsDeleteBusinessDelete ==
  /\ variant = "datastore"
  /\ \E i \in 1..Len(inflight) :
       /\ inflight[i].op = "DELETE /businesses/{id}"
       /\ inflight[i].pc = "delete"
       /\ inflight[i].found = <<>>
       /\ businesses' = [k \in (DOMAIN businesses) \ {inflight[i].id} |-> businesses[k]]
       /\ deletedBusinesses' = deletedBusinesses \cup {inflight[i].id}
       /\ Goto(i, "done", <<>>, 204)
  /\ UNCHANGED <<variant, reviews, nextBusinessId, nextReviewId, deletedReviews,
                 req, resp, oauthVars>>

\* create_review (Assignment3): validation, then the SELECT of the business.
SqlCreateReviewSelectBusiness ==
  /\ variant = "relational"
  /\ Len(inflight) < MaxInflight
  /\ \E content \in FullReviewBodies :
       inflight' = Append(inflight,
         IF ~SqlBusinessExists(content["business_id"])
         THEN Pending("POST /reviews", 0, content, "done", <<>>, 404, InProgress)
         ELSE Pending("POST /reviews", 0, content, "query", <<>>, 0, InProgress))
  /\ UNCHANGED <<variant, crudVars, req, resp, oauthVars>>

\* create_review (Assignment3): the SELECT of a review of the same pair.
SqlCreateReviewSelectReview ==
  /\ variant = "relational"
  /\ \E i \in 1..Len(inflight) :
       /\ inflight[i].op = "POST /reviews"
       /\ inflight[i].pc = "query"
       /\ IF SqlReviewExists(inflight[i].body)
          THEN Goto(i, "done", <<>>, 409)
          ELSE Goto(i, "put", <<>>, 0)
  /\ UNCHANGED <<variant, crudVars, req, resp, oauthVars>>

\* create_review (Assignment3): INSERT, conn.commit() and the 201 response. Table
\* review has no unique key on (user_id, business_id), so the INSERT succeeds.
SqlCreateReviewInsert ==
  /\ variant = "relational"
  /\ nextReviewId <= MaxReviews
  /\ \E i \in 1..Len(inflight) :
       /\ inflight[i].op = "POST /reviews"
       /\ inflight[i].pc = "put"
       /\ reviews' = Put(reviews, nextReviewId, SqlReviewRow(inflight[i].body))
       /\ nextReviewId' = nextReviewId + 1
       /\ Goto(i, "done", <<>>, 201)
  /\ UNCHANGED <<variant, businesses, nextBusinessId, deletedBusinesses, deletedReviews,
                 req, resp, oauthVars>>

ConcurrentNext ==
  \/ DsCreateBusiness \/ SqlCreateBusinesses
  \/ DsCreateReviewGetBusiness \/ DsCreateReviewQuery \/ DsCreateReviewPut
  \/ DsDeleteBusinessGet \/ DsDeleteBusinessQuery
  \/ DsDeleteBusinessDeleteReview \/ DsDeleteBusinessDelete
  \/ SqlCreateReviewSelectBusiness \/ SqlCreateReviewSelectReview \/ SqlCreateReviewInsert

SpecConcurrent == Init /\ [][ConcurrentNext]_vars


(***************************************************************************)
(* Properties of the services.                                             *)
(***************************************************************************)
\* The response GET /businesses/{id} would get in the current store.
GetBusinessResponse(id) ==
  IF variant = "datastore" THEN DsGetBusinessResponse(id) ELSE SqlGetBusinessResponse(id)

\* The response GET /reviews/{id} would get in the current store.
GetReviewResponse(id) ==
  IF variant = "datastore" THEN DsGetReviewResponse(id) ELSE SqlGetReviewResponse(id)

\* The response GET /users/{user_id}/reviews would get in the current store.
ListReviewsForUserResponse(user_id) ==
  IF variant = "datastore"
  THEN DsListReviewsForUserResponse(user_id)
  ELSE SqlGetReviewsForUserResponse(user_id)

ReviewRequiredFields == {"user_id", "business_id", "stars"}

\* A review of the same (user_id, business_id) as the body is stored.
PairStored(body) ==
  \E r \in DOMAIN reviews :
    /\ reviews[r]["user_id"] = body["user_id"]
    /\ reviews[r]["business_id"] = body["business_id"]

\* Every submitted field comes back with the submitted value; the relational
\* service returns a review's business_id as the link to the business.
SubmittedFieldsReturned(body, got) ==
  \A f \in DOMAIN body :
    IF f = "business_id" /\ f \notin DOMAIN got
    THEN "business" \in DOMAIN got /\ got["business"] = Link("businesses", body[f])
    ELSE f \in DOMAIN got /\ got[f] = body[f]

\* C1: every create request whose body passes validation (and, for a review, names
\* a stored business that the user has not reviewed yet) is answered 201 with an id,
\* and a GET of that id in the resulting store answers 200 with the submitted values.
C1_CreateThenRead ==
  [][ /\ (req'.op = "POST /businesses" /\ BusinessFieldNames \subseteq DOMAIN req'.body)
         => /\ resp'.status = 201
            /\ resp'.body["id"] \in Nat
            /\ \A id \in BusinessPathIds :
                 id = resp'.body["id"] =>
                   /\ (GetBusinessResponse(id).status = 200)'
                   /\ SubmittedFieldsReturned(req'.body, (GetBusinessResponse(id).body)')
      /\ (/\ req'.op = "POST /reviews"
          /\ ReviewRequiredFields \subseteq DOMAIN req'.body
          /\ req'.body["business_id"] \in DOMAIN businesses
          /\ ~PairStored(req'.body))
         => /\ resp'.status = 201
            /\ resp'.body["id"] \in Nat
            /\ \A id \in ReviewPathIds :
                 id = resp'.body["id"] =>
                   /\ (GetReviewResponse(id).status = 200)'
                   /\ SubmittedFieldsReturned(req'.body, (GetReviewResponse(id).body)')
    ]_vars


\* The original statement of C2: POST /reviews whose business_id references no stored
\* business always answers 404 and leaves reviews and businesses as they were.
C2_Original ==
  [][ (/\ req'.op = "POST /reviews"
       /\ "business_id" \in DOMAIN req'.body
       /\ req'.body["business_id"] \notin DOMAIN businesses)
      => /\ resp'.status = 404
         /\ reviews' = reviews
         /\ businesses' = businesses
    ]_vars

\* C2 (amended): POST /reviews whose business_id references no stored business
\* answers 404 when the body has all required fields and 400 when it lacks one, and
\* in both cases leaves reviews and businesses as they were.
C2_UnknownBusiness ==
  [][ (/\ req'.op = "POST /reviews"
       /\ "business_id" \in DOMAIN req'.body
       /\ req'.body["business_id"] \notin DOMAIN businesses)
      => /\ resp'.status = IF ReviewRequiredFields \subseteq DOMAIN req'.body
                           THEN 404 ELSE 400
         /\ reviews' = reviews
         /\ businesses' = businesses
    ]_vars

\* A complete review for a business that is not stored was refused with 404 while
\* another business is stored.
C2_Witness ==
  /\ req.op = "POST /reviews"
  /\ ReviewRequiredFields \subseteq DOMAIN req.body
  /\ req.body["business_id"] \notin DOMAIN businesses
  /\ businesses # EmptyDict
  /\ resp.status = 404

\* The original statement of C3: when a review of the pair is stored, a further
\* POST /reviews with that pair always answers 409 and changes no review.
C3_Original ==
  [][ (/\ req'.op = "POST /reviews"
       /\ {"user_id", "business_id"} \subseteq DOMAIN req'.body
       /\ PairStored(req'.body))
      => /\ resp'.status = 409
         /\ reviews' = reviews
    ]_vars

\* C3 (amended): when a review of the pair is stored, a further POST /reviews with
\* that pair and all required fields answers 409 (400 when stars is missing), creates
\* no review and leaves the stored review's stars and review_text as they were.
C3_Duplicate ==
  [][ (/\ req'.op = "POST /reviews"
       /\ {"user_id", "business_id"} \subseteq DOMAIN req'.body
       /\ PairStored(req'.body))
      => /\ resp'.status = IF ReviewRequiredFields \subseteq DOMAIN req'.body
                           THEN 409 ELSE 400
         /\ DOMAIN reviews' = DOMAIN reviews
         /\ \A r \in DOMAIN reviews : reviews'[r] = reviews[r]
    ]_vars

\* A second complete review of a stored pair was refused with 409.
C3_Witness ==
  /\ req.op = "POST /reviews"
  /\ ReviewRequiredFields \subseteq DOMAIN req.body
  /\ PairStored(req.body)
  /\ resp.status = 409

\* C4: the store never holds two reviews of the same (user_id, business_id).
C4_OneReviewPerPair ==
  \A r1 \in DOMAIN reviews, r2 \in DOMAIN reviews :
    (/\ reviews[r1]["user_id"] = reviews[r2]["user_id"]
     /\ reviews[r1]["business_id"] = reviews[r2]["business_id"])
    => r1 = r2

\* Two reviews are stored and one of them has just been updated.
C4_Witness ==
  /\ Cardinality(DOMAIN reviews) = 2
  /\ req.op = "PUT /reviews/{id}"
  /\ resp.status = 200

\* C5: once DELETE /businesses/{b} has answered 204, no stored review has
\* business_id = b and no user's review list holds a review of b.
C5_CascadeDelete ==
  \A b \in deletedBusinesses :
    /\ \A r \in DOMAIN reviews : reviews[r]["business_id"] # b
    /\ \A u \in 1..(MaxUsers + 1) :
         LET listed == ListReviewsForUserResponse(u).body
         IN  \A i \in 1..Len(listed) :
               IF variant = "datastore"
               THEN listed[i]["business_id"] # b
               ELSE listed[i]["business"] # Link("businesses", b)

\* A business was just deleted together with its review, another business and its
\* review remain.
C5_Witness ==
  /\ req.op = "DELETE /businesses/{id}"
  /\ resp.status = 204
  /\ nextReviewId = 3
  /\ deletedReviews = {}
  /\ Cardinality(DOMAIN reviews) = 1


ValidGetBy(sub) ==
  /\ req.op = "GET /businesses/{id}"
  /\ verify_jwt(req.auth).result = "payload"
  /\ verify_jwt(req.auth).sub = sub

C8_DeletedStaysDeleted ==
  [][ /\ \A id \in deletedBusinesses :
           /\ (GetBusinessResponse(id).status = 404)'
           /\ (req'.op = "GET /businesses/{id}" /\ req'.id = id) => resp'.status = 404
           /\ (req'.op = "DELETE /businesses/{id}" /\ req'.id = id)
                => (resp'.status = 404 /\ businesses' = businesses /\ reviews' = reviews)
      /\ \A id \in deletedReviews :
           /\ (GetReviewResponse(id).status = 404)'
           /\ (req'.op = "GET /reviews/{id}" /\ req'.id = id) => resp'.status = 404
           /\ (req'.op = "DELETE /reviews/{id}" /\ req'.id = id)
                => (resp'.status = 404 /\ businesses' = businesses /\ reviews' = reviews)
    ]_vars

\* A deleted business was requested again after another business had been created.
C8_Witness ==
  /\ req.op = "DELETE /businesses/{id}"
  /\ req.id \in deletedBusinesses
  /\ resp.status = 404
  /\ businesses # EmptyDict

\* C9 as stated: for each issued state token at most one /oauth callback passes
\* state verification.
C9_SingleUse ==
  \A t \in DOMAIN passed : passed[t] <= 1

\* C10: a /oauth callback whose state is missing, empty or equal to no stored state
\* value ends with 400 without a token exchange and without touching the stored
\* states; a stored state is removed only by a callback that presented that value,
\* and stored values are never altered.
C10_FailedCallback ==
  [][ /\ \A c \in 1..Len(callbacks') :
           (/\ c > Len(callbacks)
            /\ (callbacks'[c].state \in {None, ""} \/ callbacks'[c].state \notin StoredStates))
           => /\ callbacks'[c].pc = "done"
              /\ callbacks'[c].status = 400
              /\ ~callbacks'[c].exchanged
              /\ stateEntities' = stateEntities
      /\ \A k \in DOMAIN stateEntities :
           IF k \in DOMAIN stateEntities'
           THEN stateEntities'[k] = stateEntities[k]
           ELSE \E c \in 1..Len(callbacks) :
                  /\ callbacks[c].pc = "delete"
                  /\ callbacks'[c].pc = "done"
                  /\ callbacks[c].state = stateEntities[k].state
    ]_vars

\* A callback with a made-up state was refused while an issued state is stored.
C10_Witness ==
  /\ stateEntities # EmptyDict
  /\ \E c \in 1..Len(callbacks) :
       /\ callbacks[c].state = "forged"
       /\ callbacks[c].status = 400
       /\ ~callbacks[c].exchanged

\* C11: a PUT /businesses/{id} or PUT /reviews/{id} that addresses a stored record
\* with a body lacking a required field (business: owner_id, name, street_address,
\* city, state, zip_code; review: stars) is answered 400 and leaves the stored
\* businesses and reviews as they were.
C11_UpdateMissingField ==
  [][ /\ (/\ req'.op = "PUT /businesses/{id}"
          /\ req'.id \in DOMAIN businesses
          /\ ~(BusinessFieldNames \subseteq DOMAIN req'.body))
         => (resp'.status = 400 /\ businesses' = businesses /\ reviews' = reviews)
      /\ (/\ req'.op = "PUT /reviews/{id}"
          /\ req'.id \in DOMAIN reviews
          /\ "stars" \notin DOMAIN req'.body)
         => (resp'.status = 400 /\ businesses' = businesses /\ reviews' = reviews) ]_vars

\* The ids of the records of a list response, in the order returned.
ListedIds(body) == [i \in 1..Len(body) |-> body[i]["id"]]

\* C12: the list operations never answer "not found": GET /businesses (with
\* non-negative paging parameters), GET /owners/{owner_id}/businesses and
\* GET /users/{user_id}/reviews answer 200, and the last two return exactly the
\* stored records whose owner_id (user_id) is the path value, an empty list when
\* there is none.
C12_ListsNeverNotFound ==
  [][ /\ (/\ req'.op = "GET /businesses"
          /\ "limit" \in DOMAIN req'.body => (req'.body["limit"] >= 0 /\ req'.body["offset"] >= 0))
         => resp'.status = 200
      /\ req'.op = "GET /owners/{id}/businesses"
         => /\ resp'.status = 200
            /\ ListedIds(resp'.body)
                 = SortedIds({b \in DOMAIN businesses : businesses[b]["owner_id"] = req'.id})
      /\ req'.op = "GET /users/{id}/reviews"
         => /\ resp'.status = 200
            /\ ListedIds(resp'.body)
                 = SortedIds({r \in DOMAIN reviews : reviews[r]["user_id"] = req'.id}) ]_vars

\* C13: for every request whose credential is not a valid token (no Authorization
\* header, a one-word header, a string that is not a JWT, a token header without
\* alg or kid, an HS256 token, an unknown kid, an expired token, wrong claims),
\* verify_jwt returns None without raising, and POST /businesses with a valid body,
\* GET /businesses/{id} and DELETE /businesses/{id} answer 401.
C13_InvalidCredentialUnauthorized ==
  [][ (/\ req'.op \in {"POST /businesses", "GET /businesses/{id}", "DELETE /businesses/{id}"}
       /\ req'.auth \notin {ValidCredential(sub) : sub \in Subjects}
       /\ req'.op = "POST /businesses" => check_attributes(req'.body))
      => /\ verify_jwt(req'.auth) = JwtNone
         /\ resp'.status = 401 ]_vars

\* C14: in the relational service a POST /businesses or PUT /businesses/{id} whose
\* body has every required field but a zip_code that int() cannot convert is
\* answered with a 4xx status, never 500, and leaves table businesses unchanged.
C14_ZipCodeClientError ==
  [][ (/\ variant = "relational"
       /\ req'.op \in {"POST /businesses", "PUT /businesses/{id}"}
       /\ BusinessFieldNames \subseteq DOMAIN req'.body
       /\ ~PyInt(req'.body["zip_code"]).ok)
      => /\ resp'.status \in 400..499
         /\ businesses' = businesses ]_vars

\* C15: under the JWT variant a stored business leaves the store only in a
\* DELETE /businesses/{id} request for that id carrying a valid token whose sub is
\* the business's stored owner_id; a DELETE with any other credential (none, an
\* invalid token, a valid token of another subject) leaves the stored businesses
\* unchanged.
C15_DeleteOnlyByOwner ==
  [][ /\ \A id \in DOMAIN businesses :
           id \notin DOMAIN businesses'
             => /\ req'.op = "DELETE /businesses/{id}"
                /\ req'.id = id
                /\ req'.auth = ValidCredential(businesses[id]["owner_id"])
      /\ (/\ req'.op = "DELETE /businesses/{id}"
          /\ \/ req'.id \notin DOMAIN businesses
             \/ req'.auth # ValidCredential(businesses[req'.id]["owner_id"]))
         => businesses' = businesses ]_vars

\* C15 witness: a business has been deleted by its owner, and a DELETE of a stored
\* business with a valid token of another subject has just been refused.
C15_Witness ==
  /\ variant = "jwt"
  /\ deletedBusinesses # {}
  /\ req.op = "DELETE /businesses/{id}"
  /\ req.id \in DOMAIN businesses
  /\ req.auth \in {ValidCredential(sub) : sub \in Subjects}
  /\ req.auth.sub # businesses[req.id]["owner_id"]
  /\ resp.status = 403

\* What a successful PUT /reviews/{id} leaves alone: the set of stored reviews, the
\* review's user_id and business_id, every other review and every business.
UpdateReviewFrame(id) ==
  /\ DOMAIN reviews' = DOMAIN reviews
  /\ reviews'[id]["user_id"] = reviews[id]["user_id"]
  /\ reviews'[id]["business_id"] = reviews[id]["business_id"]
  /\ \A r \in (DOMAIN reviews) \ {id} : reviews'[r] = reviews[r]
  /\ businesses' = businesses
  /\ nextReviewId' = nextReviewId

\* C16 as stated: a successful PUT /reviews/{id} sets stars to the submitted value,
\* writes review_text only when the body has one (otherwise the review has the same
\* review_text, or the same absence of one, as before), and changes nothing else.
C16_Original ==
  [][ (req'.op = "PUT /reviews/{id}" /\ resp'.status = 200)
      => /\ req'.id \in DOMAIN reviews
         /\ UpdateReviewFrame(req'.id)
         /\ reviews'[req'.id]["stars"] = req'.body["stars"]
         /\ IF "review_text" \in DOMAIN req'.body
            THEN reviews'[req'.id]["review_text"] = req'.body["review_text"]
            ELSE /\ ("review_text" \in DOMAIN reviews'[req'.id])
                      = ("review_text" \in DOMAIN reviews[req'.id])
                 /\ "review_text" \in DOMAIN reviews[req'.id]
                      => reviews'[req'.id]["review_text"] = reviews[req'.id]["review_text"] ]_vars

\* C16 (amended): a successful PUT /reviews/{id} sets stars to the submitted value
\* and review_text to the submitted one when the body has it; when the body has
\* none, a stored review_text is kept, and a review stored without review_text
\* (datastore only) gets review_text = null; the review's user_id and business_id,
\* every other review and every business are unchanged.
C16_UpdateReviewFrame ==
  [][ (req'.op = "PUT /reviews/{id}" /\ resp'.status = 200)
      => /\ req'.id \in DOMAIN reviews
         /\ UpdateReviewFrame(req'.id)
         /\ reviews'[req'.id]["stars"] = req'.body["stars"]
         /\ DOMAIN reviews'[req'.id] = (DOMAIN reviews[req'.id]) \cup {"review_text"}
         /\ reviews'[req'.id]["review_text"]
              = IF "review_text" \in DOMAIN req'.body THEN req'.body["review_text"]
                ELSE IF "review_text" \in DOMAIN reviews[req'.id]
                     THEN reviews[req'.id]["review_text"]
                     ELSE None ]_vars

\* C16 witness: a PUT /reviews/{id} without review_text has succeeded on a review
\* stored with a review_text, while another review is stored too.
C16_Witness ==
  /\ req.op = "PUT /reviews/{id}"
  /\ resp.status = 200
  /\ "review_text" \notin DOMAIN req.body
  /\ req.id \in DOMAIN reviews
  /\ reviews[req.id]["stars"] = 1
  /\ reviews[req.id]["review_text"] = "good"
  /\ Cardinality(DOMAIN reviews) = 2

\* C17: under the JWT variant every business created by POST /businesses is stored
\* with owner_id equal to the sub of the token that authenticated the request,
\* whatever keys the validated body has, so that the creator can read the business
\* just created and nobody creates a business owned by another subject.
C17_OwnerIsSubject ==
  [][ (req'.op = "POST /businesses" /\ resp'.status = 201)
      => \A id \in BusinessPathIds :
           id = nextBusinessId
             => /\ id \in DOMAIN businesses'
                /\ businesses'[id]["owner_id"] = req'.auth.sub
                /\ (JwtGetBusinessResponse(id, req.auth).status = 200)' ]_vars

\* Two requests of the log were in progress at the same time.
Overlap(i, j) == i \in inflight[j].during \/ j \in inflight[i].during

SamePair(a, b) == a["user_id"] = b["user_id"] /\ a["business_id"] = b["business_id"]

\* C18: when POST /reviews requests for the same (user_id, business_id) run
\* concurrently, their storage steps interleaving freely, at most one of two
\* overlapping requests is answered 201 and the store never holds two reviews of
\* the same pair.
C18_ConcurrentCreateReview ==
  /\ \A r1, r2 \in DOMAIN reviews : r1 # r2 => ~SamePair(reviews[r1], reviews[r2])
  /\ \A i, j \in 1..Len(inflight) :
       (/\ i # j
        /\ inflight[i].op = "POST /reviews"
        /\ inflight[j].op = "POST /reviews"
        /\ SamePair(inflight[i].body, inflight[j].body)
        /\ Overlap(i, j))
       => ~(inflight[i].status = 201 /\ inflight[j].status = 201)

\* C19: in the datastore service, whenever no request is in progress, every stored
\* review's business_id is the id of a stored business, however the steps of
\* DELETE /businesses/{id} interleave with concurrent POST /reviews requests.
C19_ReferentialIntegrity ==
  (variant = "datastore" /\ InProgress = {})
    => \A r \in DOMAIN reviews : reviews[r]["business_id"] \in DOMAIN businesses

\* C20: a /oauth callback passes the state verification only when its state
\* parameter is the value the welcome route stored in the session of the browser
\* that makes the callback; a token issued to one session is refused when a
\* callback of another session presents it.
C20_StateBoundToSession ==
  [][ \A c \in 1..Len(callbacks) :
        (callbacks[c].pc = "delete" /\ callbacks'[c].pc = "done")
          => callbacks[c].state = session[callbacks[c].session] ]_vars

====
